---- MODULE Spec2Model ----
(***************************************************************************)
(* zenpatch: the hunk-application engine (src/src/applier) and the state   *)
(* it keeps while it searches for a placement of every hunk.               *)
(*                                                                         *)
(* A line is a sequence of characters; a character is a one-element token  *)
(* ("x", " ", "EN_DASH", ...).  A chunk is the record the parser builds:   *)
(* orig_index, lines (pairs <<LineType, content>>), del_lines, ins_lines.  *)
(* Indices of the original file are 0-based as in the source; TLA+         *)
(* sequences are 1-based, so original line idx is lines[idx + 1].          *)
(***************************************************************************)
EXTENDS Integers, Sequences, FiniteSets, TLC

\* ------------------------------------------------------------------------
\* Generic sequence helpers
\* ------------------------------------------------------------------------

Min(a, b) == IF a <= b THEN a ELSE b

\* usize::saturating_sub
SatSub(a, b) == IF a >= b THEN a - b ELSE 0

Range(s) == {s[i] : i \in 1..Len(s)}

\* s[from..to) with 0-based bounds, as a Rust slice
Slice(s, from, to) == [i \in 1..(to - from) |-> s[from + i]]

\* the concatenation taken from the last sequence to the first
RECURSIVE Concat_reversed(_)
Concat_reversed(ss) == IF ss = <<>> THEN <<>> ELSE Concat_reversed(Tail(ss)) \o Head(ss)

RECURSIVE Concat(_)
Concat(ss) == IF ss = <<>> THEN <<>> ELSE Head(ss) \o Concat(Tail(ss))

RECURSIVE SumSeq(_)
SumSeq(s) == IF s = <<>> THEN 0 ELSE Head(s) + SumSeq(Tail(s))

\* Option<T>: None is the empty sequence, Some(v) the one-element sequence
None == <<>>
Some(v) == <<v>>

\* ------------------------------------------------------------------------
\* 4.1 Line comparator and normalisation
\* ------------------------------------------------------------------------

Strict == "Strict"
Lenient == "Lenient"
SuperLenient == "SuperLenient"
WhitespaceMode == {Strict, Lenient, SuperLenient}

\* the table of super_normalise (each token stands for one code point)
DashChars == {"HYPHEN", "NB_HYPHEN", "FIGURE_DASH", "EN_DASH", "EM_DASH", "HBAR", "MINUS"}
SingleQuoteChars == {"LSQUO", "RSQUO", "LOW_SQUO", "REV_SQUO"}
DoubleQuoteChars == {"LDQUO", "RDQUO", "LOW_DQUO", "REV_DQUO"}
OddSpaceChars ==
    {"NBSP", "EN_SPACE", "EM_SPACE", "THREE_PER_EM_SPACE", "FOUR_PER_EM_SPACE",
     "SIX_PER_EM_SPACE", "FIGURE_SPACE", "PUNCTUATION_SPACE", "THIN_SPACE", "HAIR_SPACE",
     "NARROW_NBSP", "MEDIUM_MATH_SPACE", "IDEOGRAPHIC_SPACE"}

\* char::is_whitespace: the ASCII space and the Unicode spaces of the table
WhiteSpaceChars == {" "} \cup OddSpaceChars

\* str::trim: drop leading and trailing whitespace
RECURSIVE TrimStart(_)
TrimStart(s) ==
    IF s # <<>> /\ Head(s) \in WhiteSpaceChars THEN TrimStart(Tail(s)) ELSE s

RECURSIVE TrimEnd(_)
TrimEnd(s) ==
    IF s # <<>> /\ s[Len(s)] \in WhiteSpaceChars
    THEN TrimEnd(SubSeq(s, 1, Len(s) - 1))
    ELSE s

trim(s) == TrimEnd(TrimStart(s))

MapChar(c) ==
    IF c \in DashChars THEN "-"
    ELSE IF c \in SingleQuoteChars THEN "'"
    ELSE IF c \in DoubleQuoteChars THEN "DQUOTE"
    ELSE IF c \in OddSpaceChars THEN " "
    ELSE c

super_normalise(s) == [i \in 1..Len(trim(s)) |-> MapChar(trim(s)[i])]

\* str::split_whitespace: the maximal runs of non-whitespace characters
RECURSIVE SplitWhitespace(_, _, _)
SplitWhitespace(s, cur, acc) ==
    IF s = <<>>
    THEN IF cur = <<>> THEN acc ELSE Append(acc, cur)
    ELSE IF Head(s) \in WhiteSpaceChars
         THEN SplitWhitespace(Tail(s), <<>>, IF cur = <<>> THEN acc ELSE Append(acc, cur))
         ELSE SplitWhitespace(Tail(s), Append(cur, Head(s)), acc)

\* [&str]::join(" ")
RECURSIVE JoinSpace(_)
JoinSpace(ws) ==
    IF ws = <<>> THEN <<>>
    ELSE IF Len(ws) = 1 THEN ws[1]
    ELSE ws[1] \o <<" ">> \o JoinSpace(Tail(ws))

\* normalize that leaves the string as it is
normalize_nothing(s) == s

normalize(s) == JoinSpace(SplitWhitespace(s, <<>>, <<>>))

match_line(a, b, mode) ==
    IF mode = Strict THEN a = b
    ELSE IF mode = Lenient THEN normalize(a) = normalize(b)
    ELSE super_normalise(normalize(a)) = super_normalise(normalize(b))

\* ------------------------------------------------------------------------
\* Chunks
\* ------------------------------------------------------------------------

Context == "Context"
Deletion == "Deletion"
Insertion == "Insertion"
LineType == {Context, Deletion, Insertion}

\* the contents of the entries of ls whose type is lt, in order
RECURSIVE FilterType(_, _)
FilterType(ls, lt) ==
    IF ls = <<>> THEN <<>>
    ELSE IF Head(ls)[1] = lt
         THEN <<Head(ls)[2]>> \o FilterType(Tail(ls), lt)
         ELSE FilterType(Tail(ls), lt)

\* a chunk as text_to_patch leaves it: del_lines and ins_lines are the
\* projections of lines
Chunk(orig_index, ls) ==
    [orig_index |-> orig_index,
     lines |-> ls,
     del_lines |-> FilterType(ls, Deletion),
     ins_lines |-> FilterType(ls, Insertion)]

\* the number of leading Context entries of chunk.lines
RECURSIVE LeadingContext(_)
LeadingContext(ls) ==
    IF ls # <<>> /\ Head(ls)[1] = Context THEN 1 + LeadingContext(Tail(ls)) ELSE 0

pre_len(chunk) == LeadingContext(chunk.lines)

get_pre_context_lines(chunk) == [i \in 1..pre_len(chunk) |-> chunk.lines[i][2]]

\* the adjacency correction, as each of its four users computes it
AdjPre(chunk, mode) ==
    LET pl == pre_len(chunk) IN
    IF pl > 0 /\ chunk.del_lines # <<>>
       /\ Len(chunk.lines) > pl
       /\ chunk.lines[pl + 1][1] = Deletion
       /\ match_line(chunk.lines[pl][2], chunk.lines[pl + 1][2], mode)
    THEN SatSub(pl, 1)
    ELSE pl

\* find_fixed_mappings, lines 133-151
adj_pre_fixed(chunk, mode) == AdjPre(chunk, mode)
\* get_affected_indices, lines 290-308
adj_pre_affected(chunk, mode) == AdjPre(chunk, mode)
\* apply_chunk, lines 318-336
adj_pre_apply(chunk, mode) == AdjPre(chunk, mode)
\* backtrack_with_mode, lines 414-431
adj_pre_solver(chunk, mode) == AdjPre(chunk, mode)

\* ------------------------------------------------------------------------
\* 4.2 Candidate locator
\* ------------------------------------------------------------------------

\* lines[i + j] matches pat[j] for every j: the block pat lies at offset i
BlockAt(lines, pat, i, mode) ==
    \A j \in 1..Len(pat) : match_line(lines[i + j], pat[j], mode)

\* the scan that stops one offset early
RECURSIVE ScanFrom_short(_, _, _, _, _)
ScanFrom_short(i, hi, lines, pat, mode) ==
    IF i >= hi THEN <<>>
    ELSE (IF BlockAt(lines, pat, i, mode) THEN <<i>> ELSE <<>>)
         \o ScanFrom_short(i + 1, hi, lines, pat, mode)

\* for i in i..=hi: the offsets at which the block pat lies, ascending
RECURSIVE ScanFrom(_, _, _, _, _)
ScanFrom(i, hi, lines, pat, mode) ==
    IF i > hi THEN <<>>
    ELSE (IF BlockAt(lines, pat, i, mode) THEN <<i>> ELSE <<>>)
         \o ScanFrom(i + 1, hi, lines, pat, mode)

\* the trailing Context run of chunk.lines without its blank lines, in order
RECURSIVE TrailingContext(_)
TrailingContext(ls) ==
    IF ls # <<>> /\ ls[Len(ls)][1] = Context
    THEN TrailingContext(SubSeq(ls, 1, Len(ls) - 1))
         \o (IF trim(ls[Len(ls)][2]) # <<>> THEN <<ls[Len(ls)][2]>> ELSE <<>>)
    ELSE <<>>

post_context(chunk) == TrailingContext(chunk.lines)

\* lines 264-272: keep the offsets with the anchor in the window after pre
RECURSIVE FilterByAnchor(_, _, _, _, _)
FilterByAnchor(positions, lines, anchor, pre_full_len, mode) ==
    IF positions = <<>> THEN <<>>
    ELSE LET pos == Head(positions)
             start == pos + pre_full_len
             end == Min(Len(lines), start + pre_full_len + 10)
             hit == \E i \in start..(end - 1) : match_line(lines[i + 1], anchor, mode)
         IN (IF hit THEN <<pos>> ELSE <<>>)
            \o FilterByAnchor(Tail(positions), lines, anchor, pre_full_len, mode)

\* lines 276-282: one offset per line that matches the last line of pre
RECURSIVE AnchorFallback(_, _, _, _)
AnchorFallback(i, lines, anchor_line, anchor_idx) ==
    IF i >= Len(lines) THEN <<>>
    ELSE (IF match_line(lines[i + 1], anchor_line, Lenient)
          THEN <<SatSub(i, anchor_idx)>> ELSE <<>>)
         \o AnchorFallback(i + 1, lines, anchor_line, anchor_idx)

\* lines 203-241: the offsets found before the trailing anchor and the
\* fallback are looked at
enumerated_positions(lines, chunk, mode) ==
    LET pre == get_pre_context_lines(chunk)
        del_len == Len(chunk.del_lines)
        clen == Len(pre)
    IN
    IF pre = <<>>
    THEN IF chunk.del_lines = <<>>
         THEN <<Min(chunk.orig_index, Len(lines))>>
         ELSE IF del_len > 0 /\ Len(lines) >= del_len
              THEN ScanFrom(0, Len(lines) - del_len, lines, chunk.del_lines, mode)
              ELSE <<>>
    ELSE IF Len(lines) < clen
    THEN <<>>
    ELSE ScanFrom(0, Len(lines) - clen, lines, pre, mode)

find_match_positions(lines, chunk, mode) ==
    LET pre == get_pre_context_lines(chunk)
        clen == Len(pre)
    IN
    IF pre = <<>> \/ Len(lines) < clen
    THEN enumerated_positions(lines, chunk, mode)
    ELSE LET scanned == enumerated_positions(lines, chunk, mode)
             post == post_context(chunk)
             positions ==
                 IF chunk.del_lines = <<>> /\ chunk.ins_lines # <<>> /\ post # <<>>
                 THEN FilterByAnchor(scanned, lines, post[1], clen, mode)
                 ELSE scanned
         IN IF post = <<>> /\ positions = <<>> /\ mode = Lenient /\ pre # <<>>
            THEN AnchorFallback(0, lines, pre[clen], clen - 1)
            ELSE positions

\* ------------------------------------------------------------------------
\* Footprint and replay
\* ------------------------------------------------------------------------

\* get_affected_indices without the adjacency-corrected pre-context length
get_affected_indices_from_pos(chunk, pos, mode) ==
    [k \in 1..Len(chunk.del_lines) |-> pos + (k - 1)]

get_affected_indices(chunk, pos, mode) ==
    LET adj_pre == adj_pre_affected(chunk, mode)
    IN [k \in 1..Len(chunk.del_lines) |-> pos + adj_pre + (k - 1)]

\* apply_chunk that copies the tail from the start of the deletion block
apply_chunk_keeping_deleted(lines, chunk, pos, mode) ==
    LET adj_pre == adj_pre_apply(chunk, mode)
        start_copy == Min(pos + adj_pre, Len(lines))
    IN Slice(lines, 0, start_copy) \o chunk.ins_lines \o Slice(lines, start_copy, Len(lines))

apply_chunk(lines, chunk, pos, mode) ==
    LET adj_pre == adj_pre_apply(chunk, mode)
        start_copy == Min(pos + adj_pre, Len(lines))
        end_del == Min(pos + adj_pre + Len(chunk.del_lines), Len(lines))
    IN Slice(lines, 0, start_copy) \o chunk.ins_lines \o Slice(lines, end_del, Len(lines))

\* Vec::sort_by_key(|&(_, pos)| pos): a stable sort, here by insertion
RECURSIVE InsertByPos(_, _)
InsertByPos(sorted, e) ==
    IF sorted = <<>> THEN <<e>>
    ELSE IF sorted[Len(sorted)][2] <= e[2] THEN Append(sorted, e)
    ELSE Append(InsertByPos(SubSeq(sorted, 1, Len(sorted) - 1), e), sorted[Len(sorted)])

RECURSIVE sort_by_key_pos(_)
sort_by_key_pos(path) ==
    IF path = <<>> THEN <<>>
    ELSE InsertByPos(sort_by_key_pos(SubSeq(path, 1, Len(path) - 1)), path[Len(path)])

\* the loop over the ordered placements with its running delta
RECURSIVE ReplayLoop(_, _, _, _, _)
ReplayLoop(buf, delta, ordered, chunks, mode) ==
    IF ordered = <<>> THEN buf
    ELSE LET chunk == chunks[Head(ordered)[1] + 1]
             orig_pos == Head(ordered)[2]
             pos == IF delta >= 0 THEN orig_pos + delta ELSE SatSub(orig_pos, -delta)
         IN ReplayLoop(apply_chunk(buf, chunk, pos, mode),
                       delta + Len(chunk.ins_lines) - Len(chunk.del_lines),
                       Tail(ordered), chunks, mode)

\* backtrack_with_mode, lines 365-378
replay_candidate(lines, chunks, current_path, mode) ==
    ReplayLoop(lines, 0, sort_by_key_pos(current_path), chunks, mode)

\* apply_patch_backtracking_mode, lines 99-113
replay_solution(original_lines, chunks, solution, mode) ==
    ReplayLoop(original_lines, 0, sort_by_key_pos(solution), chunks, mode)

\* ------------------------------------------------------------------------
\* Search state (src/src/applier/state.rs)
\* ------------------------------------------------------------------------

BacktrackingState_new ==
    [current_line_index |-> 0,
     applied_chunks |-> {},
     modified_indices |-> {},
     solution_count |-> 0,
     first_solution_result |-> None,
     solution_path |-> None]

\* DeletionMatches with the bounds test but without the comparison
DeletionInBounds(lines, chunk, pos, adj_pre, mode) ==
    \A j \in 0..(Len(chunk.del_lines) - 1) : pos + adj_pre + j < Len(lines)

\* every del_line lies in the file at pos + adj_pre + j and matches it
DeletionMatches(lines, chunk, pos, adj_pre, mode) ==
    \A j \in 0..(Len(chunk.del_lines) - 1) :
        LET idx == pos + adj_pre + j
        IN idx < Len(lines) /\ match_line(lines[idx + 1], chunk.del_lines[j + 1], mode)

\* find_fixed_mappings, lines 153-160
content_match_fixed(lines, chunk, pos, mode) ==
    DeletionMatches(lines, chunk, pos, adj_pre_fixed(chunk, mode), mode)

\* the solver without its content test
content_match_solver_skipped(lines, chunk, pos, mode) == TRUE

\* backtrack_with_mode, lines 433-440
content_match_solver(lines, chunk, pos, mode) ==
    DeletionMatches(lines, chunk, pos, adj_pre_solver(chunk, mode), mode)

\* ------------------------------------------------------------------------
\* 4.3 Fixation pass
\* ------------------------------------------------------------------------

RECURSIVE valid_positions(_, _, _, _)
valid_positions(positions, lines, chunk, mode) ==
    IF positions = <<>> THEN <<>>
    ELSE (IF content_match_fixed(lines, chunk, Head(positions), mode)
          THEN <<Head(positions)>> ELSE <<>>)
         \o valid_positions(Tail(positions), lines, chunk, mode)

\* the loop over chunks.iter().enumerate(), from chunk_idx on
RECURSIVE FixedLoop(_, _, _, _, _, _, _)
FixedLoop(chunk_idx, original_lines, chunks, mode, result_path, state, used_indices) ==
    IF chunk_idx >= Len(chunks)
    THEN [path |-> result_path, state |-> state]
    ELSE LET chunk == chunks[chunk_idx + 1]
             positions == find_match_positions(original_lines, chunk, mode)
             valid == valid_positions(positions, original_lines, chunk, mode)
             pos == valid[1]
             affected == Range(get_affected_indices(chunk, pos, mode))
         IN IF Len(valid) = 1 /\ affected \cap used_indices = {}
            THEN FixedLoop(chunk_idx + 1, original_lines, chunks, mode,
                           Append(result_path, <<chunk_idx, pos>>),
                           [state EXCEPT !.applied_chunks = @ \cup {chunk_idx},
                                         !.modified_indices = @ \cup affected],
                           used_indices \cup affected)
            ELSE FixedLoop(chunk_idx + 1, original_lines, chunks, mode,
                           result_path, state, used_indices)

find_fixed_mappings(original_lines, chunks, mode) ==
    FixedLoop(0, original_lines, chunks, mode, <<>>, BacktrackingState_new, {})

\* ------------------------------------------------------------------------
\* The engine as a state machine
\* ------------------------------------------------------------------------

\* the node budget (100_000 in the source, scaled to the size of the inputs)
MAX_BACKTRACK_NODES == 12

\* how many engine calls one behaviour makes
MaxCalls == 2

VARIABLES
    original_lines,   \* the file of the current call
    chunks,           \* the hunks of the current call
    mode,             \* the WhitespaceMode of the current call
    pc,               \* "call": about to enter the engine; "search": in the
                      \* solver; "done": the call has returned
    stack,            \* the activations of backtrack_with_mode, innermost last
    NODE_COUNT,       \* the thread-local counter of solver entries
    solution,         \* the driver's copy of state.solution_path
    result,           \* what the call returned
    prev,             \* the inputs and the result of the previous call
    calls,            \* engine calls started so far on this thread
    entered,          \* entries into backtrack_with_mode made by the current call
    other_NODE_COUNT, \* the NODE_COUNT cell of a second thread
    vfs,              \* apply: the caller's file system, path to content
    new_vfs,          \* apply: the clone the actions are applied to
    actions,          \* apply: the parsed patch
    ai,               \* apply: the actions the loop has completed
    apc,              \* apply: "idle", "loop", "strict", "lenient" or "returned"
    reached_vfs,      \* apply: new_vfs as the current action found it
    strict_result,    \* apply: the local `result` of the Strict attempt
    invoked,          \* apply: the modes the current action called the engine with
    apply_result      \* apply: what apply returned

\* the state of apply
applying == <<vfs, new_vfs, actions, ai, apc, reached_vfs, strict_result, invoked, apply_result>>

\* what the engine on this thread never writes
outer == <<other_NODE_COUNT, applying>>

vars == <<original_lines, chunks, mode, pc, stack, NODE_COUNT, solution, result, prev, calls,
          entered, outer>>

Ok(lines) == [kind |-> "Ok", lines |-> lines]
PatchConflict == [kind |-> "PatchConflict", lines |-> <<>>]
AmbiguousPatch == [kind |-> "AmbiguousPatch", lines |-> <<>>]
Panic == [kind |-> "Panic", lines |-> <<>>]
NoResult == [kind |-> "None", lines |-> <<>>]

\* apply has not been called
NoApply ==
    /\ vfs = <<>>
    /\ new_vfs = <<>>
    /\ actions = <<>>
    /\ ai = 0
    /\ apc = "idle"
    /\ reached_vfs = <<>>
    /\ strict_result = NoResult
    /\ invoked = <<>>
    /\ apply_result = [kind |-> "None", vfs |-> <<>>, arg |-> ""]

\* an activation of backtrack_with_mode: its state and current_path
\* arguments, where it is (at), and the cursors of its two loops
Frame(state, current_path) ==
    [state |-> state, current_path |-> current_path, at |-> "entry", i |-> 0, k |-> 1]

Top == stack[Len(stack)]

SetTop(f) == [stack EXCEPT ![Len(stack)] = f]

\* Call without the reset of the counter
Call_without_reset ==
    /\ pc = "call"
    /\ IF original_lines = <<>> /\ \A c \in 1..Len(chunks) : chunks[c].del_lines = <<>>
       THEN /\ result' = Ok(Concat([c \in 1..Len(chunks) |-> chunks[c].ins_lines]))
            /\ pc' = "done"
            /\ UNCHANGED <<stack, NODE_COUNT, solution>>
       ELSE LET fixed == find_fixed_mappings(original_lines, chunks, mode)
            IN /\ stack' = <<Frame(fixed.state, fixed.path)>>
               /\ pc' = "search"
               /\ UNCHANGED <<result, solution, NODE_COUNT>>
    /\ entered' = 0
    /\ UNCHANGED <<original_lines, chunks, mode, prev, calls, outer>>

\* lines 75-86: the empty-original shortcut, or the fixation pass, the
\* reset of the counter and the first entry into the solver
Call ==
    /\ pc = "call"
    /\ IF original_lines = <<>> /\ \A c \in 1..Len(chunks) : chunks[c].del_lines = <<>>
       THEN /\ result' = Ok(Concat([c \in 1..Len(chunks) |-> chunks[c].ins_lines]))
            /\ pc' = "done"
            /\ UNCHANGED <<stack, NODE_COUNT, solution>>
       ELSE LET fixed == find_fixed_mappings(original_lines, chunks, mode)
            IN /\ NODE_COUNT' = 0
               /\ stack' = <<Frame(fixed.state, fixed.path)>>
               /\ pc' = "search"
               /\ UNCHANGED <<result, solution>>
    /\ entered' = 0
    /\ UNCHANGED <<original_lines, chunks, mode, prev, calls, outer>>

\* Enter without the test of the node budget
Enter_without_budget ==
    /\ pc = "search"
    /\ Top.at = "entry"
    /\ LET n == NODE_COUNT + 1
           over == n > MAX_BACKTRACK_NODES
           state == Top.state
           candidate == replay_candidate(original_lines, chunks, Top.current_path, mode)
       IN /\ NODE_COUNT' = n
          /\ entered' = entered + 1
          /\ IF state.solution_count > 1
             THEN stack' = SetTop([Top EXCEPT !.state.solution_count = 2, !.at = "ret"])
             ELSE IF Len(Top.current_path) = Len(chunks)
             THEN IF state.solution_count = 0
                  THEN stack' = SetTop([Top EXCEPT
                                   !.state.solution_count = 1,
                                   !.state.first_solution_result = Some(candidate),
                                   !.state.solution_path = Some(Top.current_path),
                                   !.at = "ret"])
                  ELSE IF state.first_solution_result = Some(candidate)
                  THEN stack' = SetTop([Top EXCEPT !.at = "ret"])
                  ELSE stack' = SetTop([Top EXCEPT !.state.solution_count = 2, !.at = "ret"])
             ELSE stack' = SetTop([Top EXCEPT !.at = "loop"])
    /\ UNCHANGED <<original_lines, chunks, mode, pc, solution, result, prev, calls, outer>>

\* lines 354-395: the entry of backtrack_with_mode, up to the two loops
Enter ==
    /\ pc = "search"
    /\ Top.at = "entry"
    /\ LET n == NODE_COUNT + 1
           over == n > MAX_BACKTRACK_NODES
           state == Top.state
           candidate == replay_candidate(original_lines, chunks, Top.current_path, mode)
       IN /\ NODE_COUNT' = n
          /\ entered' = entered + 1
          /\ IF over \/ state.solution_count > 1
             THEN stack' = SetTop([Top EXCEPT !.state.solution_count = 2, !.at = "ret"])
             ELSE IF Len(Top.current_path) = Len(chunks)
             THEN IF state.solution_count = 0
                  THEN stack' = SetTop([Top EXCEPT
                                   !.state.solution_count = 1,
                                   !.state.first_solution_result = Some(candidate),
                                   !.state.solution_path = Some(Top.current_path),
                                   !.at = "ret"])
                  ELSE IF state.first_solution_result = Some(candidate)
                  THEN stack' = SetTop([Top EXCEPT !.at = "ret"])
                  ELSE stack' = SetTop([Top EXCEPT !.state.solution_count = 2, !.at = "ret"])
             ELSE stack' = SetTop([Top EXCEPT !.at = "loop"])
    /\ UNCHANGED <<original_lines, chunks, mode, pc, solution, result, prev, calls, outer>>

\* the solver without the orig_index filter
min_orig_ignored(state) == None

\* lines 397-400: the least orig_index among the chunks not applied
min_orig(state) ==
    LET rest == {chunks[j + 1].orig_index : j \in (0..(Len(chunks) - 1)) \ state.applied_chunks}
    IN IF rest = {} THEN None ELSE Some(CHOOSE m \in rest : \A o \in rest : m <= o)

\* NextFeasible without the test against modified_indices
RECURSIVE NextFeasible_overlapping(_, _, _)
NextFeasible_overlapping(state, i, k) ==
    IF i >= Len(chunks) THEN [i |-> i, k |-> k, pos |-> 0]
    ELSE LET chunk == chunks[i + 1]
             min_o == min_orig(state)
             positions == find_match_positions(original_lines, chunk, mode)
         IN IF i \in state.applied_chunks THEN NextFeasible_overlapping(state, i + 1, 1)
            ELSE IF min_o # None /\ chunk.orig_index # min_o[1]
            THEN NextFeasible_overlapping(state, i + 1, 1)
            ELSE IF k > Len(positions) THEN NextFeasible_overlapping(state, i + 1, 1)
            ELSE IF ~content_match_solver(original_lines, chunk, positions[k], mode)
            THEN NextFeasible_overlapping(state, i, k + 1)
            ELSE [i |-> i, k |-> k, pos |-> positions[k]]

\* lines 402-448: from the cursors (i, k) on, the first chunk and position
\* that pass every test of the loop body; Len(chunks) for i when none is left
RECURSIVE NextFeasible(_, _, _)
NextFeasible(state, i, k) ==
    IF i >= Len(chunks) THEN [i |-> i, k |-> k, pos |-> 0]
    ELSE LET chunk == chunks[i + 1]
             min_o == min_orig(state)
             positions == find_match_positions(original_lines, chunk, mode)
         IN IF i \in state.applied_chunks THEN NextFeasible(state, i + 1, 1)
            ELSE IF min_o # None /\ chunk.orig_index # min_o[1] THEN NextFeasible(state, i + 1, 1)
            ELSE IF k > Len(positions) THEN NextFeasible(state, i + 1, 1)
            ELSE LET pos == positions[k]
                     affected == Range(get_affected_indices(chunk, pos, mode))
                 IN IF ~content_match_solver(original_lines, chunk, pos, mode)
                    THEN NextFeasible(state, i, k + 1)
                    ELSE IF affected \cap state.modified_indices # {}
                    THEN NextFeasible(state, i, k + 1)
                    ELSE [i |-> i, k |-> k, pos |-> pos]

\* Descend that does not record the footprint of the hunk it places
Descend_without_claiming ==
    /\ pc = "search"
    /\ Top.at = "loop"
    /\ LET nxt == NextFeasible(Top.state, Top.i, Top.k)
           next_state == [Top.state EXCEPT !.applied_chunks = @ \cup {nxt.i}]
           next_path == Append(Top.current_path, <<nxt.i, nxt.pos>>)
       IN IF nxt.i >= Len(chunks)
          THEN stack' = SetTop([Top EXCEPT !.at = "ret"])
          ELSE stack' = Append(SetTop([Top EXCEPT !.at = "wait", !.i = nxt.i, !.k = nxt.k + 1]),
                               Frame(next_state, next_path))
    /\ UNCHANGED <<original_lines, chunks, mode, pc, NODE_COUNT, solution, result, prev, calls,
                   entered, outer>>

\* lines 402-458: run the loops to the next feasible candidate and descend
\* into it with a cloned state, or fall off the end of the function
Descend ==
    /\ pc = "search"
    /\ Top.at = "loop"
    /\ LET nxt == NextFeasible(Top.state, Top.i, Top.k)
           chunk == chunks[nxt.i + 1]
           affected == Range(get_affected_indices(chunk, nxt.pos, mode))
           next_state == [Top.state EXCEPT !.applied_chunks = @ \cup {nxt.i},
                                           !.modified_indices = @ \cup affected]
           next_path == Append(Top.current_path, <<nxt.i, nxt.pos>>)
       IN IF nxt.i >= Len(chunks)
          THEN stack' = SetTop([Top EXCEPT !.at = "ret"])
          ELSE stack' = Append(SetTop([Top EXCEPT !.at = "wait", !.i = nxt.i, !.k = nxt.k + 1]),
                               Frame(next_state, next_path))
    /\ UNCHANGED <<original_lines, chunks, mode, pc, NODE_COUNT, solution, result, prev, calls,
                   entered, outer>>

\* Return that takes over the count but not the first solution
Return_without_copy ==
    /\ pc = "search"
    /\ Len(stack) >= 2
    /\ Top.at = "ret"
    /\ LET next_state == Top.state
           caller == stack[Len(stack) - 1]
           counted == [caller EXCEPT !.state.solution_count = next_state.solution_count]
           resumed == [counted EXCEPT !.at = IF next_state.solution_count > 1 THEN "ret" ELSE "loop"]
       IN stack' = Append(SubSeq(stack, 1, Len(stack) - 2), resumed)
    /\ UNCHANGED <<original_lines, chunks, mode, pc, NODE_COUNT, solution, result, prev, calls,
                   entered, outer>>

\* Return without the early return on a second solution
Return_keeps_searching ==
    /\ pc = "search"
    /\ Len(stack) >= 2
    /\ Top.at = "ret"
    /\ LET next_state == Top.state
           caller == stack[Len(stack) - 1]
           counted == [caller EXCEPT !.state.solution_count = next_state.solution_count]
           copied == IF next_state.solution_count = 1
                     THEN [counted EXCEPT
                              !.state.first_solution_result = next_state.first_solution_result,
                              !.state.solution_path = next_state.solution_path]
                     ELSE counted
           resumed == [copied EXCEPT !.at = "loop"]
       IN stack' = Append(SubSeq(stack, 1, Len(stack) - 2), resumed)
    /\ UNCHANGED <<original_lines, chunks, mode, pc, NODE_COUNT, solution, result, prev, calls,
                   entered, outer>>

\* lines 460-467: a recursive call returns into the loop of its caller
Return ==
    /\ pc = "search"
    /\ Len(stack) >= 2
    /\ Top.at = "ret"
    /\ LET next_state == Top.state
           caller == stack[Len(stack) - 1]
           counted == [caller EXCEPT !.state.solution_count = next_state.solution_count]
           copied == IF next_state.solution_count = 1
                     THEN [counted EXCEPT
                              !.state.first_solution_result = next_state.first_solution_result,
                              !.state.solution_path = next_state.solution_path]
                     ELSE counted
           resumed == [copied EXCEPT !.at = IF next_state.solution_count > 1 THEN "ret" ELSE "loop"]
       IN stack' = Append(SubSeq(stack, 1, Len(stack) - 2), resumed)
    /\ UNCHANGED <<original_lines, chunks, mode, pc, NODE_COUNT, solution, result, prev, calls,
                   entered, outer>>

\* lines 88-114: the solver has returned to the driver
Finish ==
    /\ pc = "search"
    /\ Len(stack) = 1
    /\ Top.at = "ret"
    /\ LET state == Top.state
       IN IF state.solution_count = 0
          THEN result' = PatchConflict /\ UNCHANGED solution
          ELSE IF state.solution_count > 1
          THEN result' = AmbiguousPatch /\ UNCHANGED solution
          ELSE IF state.solution_path = None
          THEN result' = Panic /\ UNCHANGED solution
          ELSE /\ solution' = state.solution_path
               /\ result' = Ok(replay_solution(original_lines, chunks, state.solution_path[1], mode))
    /\ pc' = "done"
    /\ stack' = <<>>
    /\ UNCHANGED <<original_lines, chunks, mode, NODE_COUNT, prev, calls, entered, outer>>

\* what is remembered of a call that has returned
Record == [original_lines |-> original_lines, chunks |-> chunks, mode |-> mode,
           result |-> result, NODE_COUNT |-> NODE_COUNT]

\* the caller invokes the engine again on the same file and hunks
CallAgain(m) ==
    /\ pc = "done"
    /\ calls < MaxCalls
    /\ prev' = Some(Record)
    /\ mode' = m
    /\ pc' = "call"
    /\ result' = NoResult
    /\ solution' = None
    /\ calls' = calls + 1
    /\ UNCHANGED <<original_lines, chunks, stack, NODE_COUNT, entered, outer>>

\* the caller applies the same hunks to the content the engine returned
CallOnResult ==
    /\ pc = "done"
    /\ calls < MaxCalls
    /\ result.kind = "Ok"
    /\ prev' = Some(Record)
    /\ original_lines' = result.lines
    /\ pc' = "call"
    /\ result' = NoResult
    /\ solution' = None
    /\ calls' = calls + 1
    /\ UNCHANGED <<chunks, mode, stack, NODE_COUNT, entered, outer>>

\* ------------------------------------------------------------------------
\* Inputs
\* ------------------------------------------------------------------------

X == <<"x">>
Y == <<"y">>
\* " x": equal to X after whitespace folding, not byte for byte
SX == <<" ", "x">>

\* longest file, in lines
MaxFileLen == 3
\* most lines of the chunk of a one-chunk patch
MaxSingleLines == 3
\* most lines of each chunk of a two-chunk patch
MaxPairLines == 2
\* largest orig_index hint
MaxOrigIndex == 1

SeqsUpTo(S, n) == UNION {[1..k -> S] : k \in 0..n}

\* the parser pushes a chunk only when it has lines
ChunkBodies(entries, n) == SeqsUpTo(entries, n) \ {<<>>}

\* Patches of at most one chunk on files over x, " x" and y: context and
\* deletions of any of the three, insertions of x.  These lines fold alike
\* under Lenient and SuperLenient, so the mode is Strict or Lenient.  The
\* locator reads orig_index only when a chunk has neither pre-context nor
\* deletions.
SingleEntries == ({Context, Deletion} \X {X, SX, Y}) \cup {<<Insertion, X>>}

SingleChunks ==
    {c \in {Chunk(o, ls) : o \in 0..MaxOrigIndex, ls \in ChunkBodies(SingleEntries, MaxSingleLines)} :
        c.orig_index = 0 \/ (pre_len(c) = 0 /\ c.del_lines = <<>>)}

InitSingle ==
    /\ original_lines \in SeqsUpTo({X, SX, Y}, MaxFileLen)
    /\ chunks \in {<<>>} \cup {<<c>> : c \in SingleChunks}
    /\ mode \in {Strict, Lenient}

\* Patches of two chunks with every order of their orig_index hints, on
\* files over x and y.  Exchanging x and y maps a run to a run, so the files
\* that begin with y are left out; on these lines the three modes compare
\* alike, so the mode is Strict.
PairFiles == {f \in SeqsUpTo({X, Y}, MaxFileLen) : f = <<>> \/ f[1] = X}

InitPair ==
    /\ original_lines \in PairFiles
    /\ \E o \in {oo \in (0..MaxOrigIndex) \X (0..MaxOrigIndex) : oo[1] = 0 \/ oo[2] = 0} :
       \E a \in ChunkBodies(LineType \X {X, Y}, MaxPairLines),
          b \in ChunkBodies(LineType \X {X, Y}, MaxPairLines) :
          chunks = <<Chunk(o[1], a), Chunk(o[2], b)>>
    /\ mode = Strict

\* Patches of one short chunk on lines that tell the three modes apart:
\* "-" and " -" are equal after whitespace folding, and the en dash equals
\* both after punctuation folding only.
H == <<"-">>
SH == <<" ", "-">>
D == <<"EN_DASH">>

InitFold ==
    /\ original_lines \in SeqsUpTo({H, SH, D}, MaxFileLen)
    /\ \E ls \in ChunkBodies(LineType \X {H, SH, D}, MaxPairLines) :
          chunks = <<Chunk(0, ls)>>
    /\ mode \in WhitespaceMode

Init ==
    /\ (InitSingle \/ InitPair \/ InitFold)
    /\ pc = "call"
    /\ stack = <<>>
    /\ NODE_COUNT = 0
    /\ solution = None
    /\ result = NoResult
    /\ prev = None
    /\ calls = 1
    /\ entered = 0
    /\ other_NODE_COUNT = 0
    /\ NoApply

Next ==
    \/ Call
    \/ Enter
    \/ Descend
    \/ Return
    \/ Finish
    \/ \E m \in {mode, Lenient} : CallAgain(m)
    \/ CallOnResult

Spec == Init /\ [][Next]_vars

\* ------------------------------------------------------------------------
\* Placements, as the specification speaks of them
\* ------------------------------------------------------------------------

\* the call took the empty-original shortcut
Shortcut == original_lines = <<>> /\ \A c \in 1..Len(chunks) : chunks[c].del_lines = <<>>

\* the call ran out of nodes
BudgetExhausted == NODE_COUNT > MAX_BACKTRACK_NODES

\* the call went through the solver and has returned
Searched == pc = "done" /\ ~Shortcut

\* the deletion footprint of chunk c (1-based) placed at offset i
Footprint(c, i) ==
    {i + AdjPre(chunks[c], mode) + j : j \in 0..(Len(chunks[c].del_lines) - 1)}

\* every hunk at one of its locator candidates
Assignments ==
    {a \in [1..Len(chunks) -> 0..Len(original_lines)] :
        \A c \in 1..Len(chunks) :
            a[c] \in Range(find_match_positions(original_lines, chunks[c], mode))}

\* each footprint matches del_lines and the footprints are pairwise disjoint
Feasible(a) ==
    /\ \A c \in 1..Len(chunks) :
          DeletionMatches(original_lines, chunks[c], a[c], AdjPre(chunks[c], mode), mode)
    /\ \A c, d \in 1..Len(chunks) : c # d => Footprint(c, a[c]) \cap Footprint(d, a[d]) = {}

FeasibleAssignments == {a \in Assignments : Feasible(a)}

\* the replay of a placement set: ascending offset, ties in hunk input order
ReplayOf(a) ==
    ReplayLoop(original_lines, 0,
               sort_by_key_pos([c \in 1..Len(chunks) |-> <<c - 1, a[c]>>]), chunks, mode)

\* ------------------------------------------------------------------------
\* Claims
\* ------------------------------------------------------------------------

\* C1: outside the shortcut and with the budget not exhausted, when a
\* feasible placement set exists and all of them replay to one line-sequence,
\* the engine returns Ok with that line-sequence.
C1_UniqueOutcomeIsReturned ==
    (Searched /\ ~BudgetExhausted /\ FeasibleAssignments # {}
        /\ \A a, b \in FeasibleAssignments : ReplayOf(a) = ReplayOf(b))
    => \A a \in FeasibleAssignments : result = Ok(ReplayOf(a))

\* C2: outside the shortcut and with the budget not exhausted, the engine
\* returns PatchConflict exactly when no placement set is feasible.
C2_ConflictIffNoPlacement ==
    (Searched /\ ~BudgetExhausted)
    => (result = PatchConflict <=> FeasibleAssignments = {})

\* C2 witness: a two-hunk patch whose hunks each have a matching candidate
\* but that has no feasible placement set
C2_Witness ==
    /\ Searched /\ ~BudgetExhausted /\ result = PatchConflict
    /\ Len(chunks) = 2
    /\ Assignments # {}
    /\ \A c \in 1..2 : \E a \in Assignments :
          DeletionMatches(original_lines, chunks[c], a[c], AdjPre(chunks[c], mode), mode)

\* C3: when two feasible placement sets replay to different line-sequences
\* the engine returns AmbiguousPatch.
C3_DistinctOutcomesAreAmbiguous ==
    (pc = "done" /\ \E a, b \in FeasibleAssignments : ReplayOf(a) # ReplayOf(b))
    => result = AmbiguousPatch

\* the placements the engine accepted: the path of the solution it returned
Accepted == IF solution = None THEN <<>> ELSE solution[1]

\* where placement p = <<hunk index, offset>> starts to delete or insert
StartOf(p) == p[2] + AdjPre(chunks[p[1] + 1], mode)

\* the original indices placement p deletes
FootprintOf(p) == {StartOf(p) + j : j \in 0..(Len(chunks[p[1] + 1].del_lines) - 1)}

\* the ins_lines of the placements ps[order[k]], k = from.., that start at q
RECURSIVE InsertedAt(_, _, _, _)
InsertedAt(q, ps, order, from) ==
    IF from > Len(ps) THEN <<>>
    ELSE (IF StartOf(ps[order[from]]) = q THEN chunks[ps[order[from]][1] + 1].ins_lines ELSE <<>>)
         \o InsertedAt(q, ps, order, from + 1)

\* the original with every footprint of ps replaced by the ins_lines of its
\* hunk and every other line kept; hunks that start at the same index put
\* their insertions in the order given
RECURSIVE SpliceFrom(_, _, _)
SpliceFrom(q, ps, order) ==
    IF q > Len(original_lines) THEN <<>>
    ELSE InsertedAt(q, ps, order, 1)
         \o (IF q < Len(original_lines) /\ \A k \in 1..Len(ps) : q \notin FootprintOf(ps[k])
             THEN <<original_lines[q + 1]>> ELSE <<>>)
         \o SpliceFrom(q + 1, ps, order)

Splices(ps) == {SpliceFrom(0, ps, order) : order \in Permutations(1..Len(ps))}

\* C4: an Ok result of a search is the original with exactly the footprints
\* of the accepted placements replaced by the ins_lines of their hunks.
C4_OnlyFootprintsAreReplaced ==
    (Searched /\ result.kind = "Ok") => result.lines \in Splices(Accepted)

\* C5: the footprints of the accepted placements are pairwise disjoint and
\* lie in [0, len(original)).
C5_FootprintsDisjointAndInRange ==
    (Searched /\ result.kind = "Ok") =>
        /\ \A k \in 1..Len(Accepted) :
              FootprintOf(Accepted[k]) \subseteq 0..(Len(original_lines) - 1)
        /\ \A k, l \in 1..Len(Accepted) :
              k # l => FootprintOf(Accepted[k]) \cap FootprintOf(Accepted[l]) = {}

\* C5 witness: an accepted pair of placements, one pinned by the fixation
\* pass and one placed by the solver, that both delete
C5_Witness ==
    /\ Searched /\ result.kind = "Ok"
    /\ Len(Accepted) = 2
    /\ \A k \in 1..2 : FootprintOf(Accepted[k]) # {}
    /\ Len(find_fixed_mappings(original_lines, chunks, mode).path) = 1

\* the sum over all hunks of |ins_lines| - |del_lines|
LengthDelta == SumSeq([c \in 1..Len(chunks) |-> Len(chunks[c].ins_lines) - Len(chunks[c].del_lines)])

\* C6: an Ok result is as long as the original plus the sum over all hunks
\* of |ins_lines| - |del_lines|.
C6_LengthArithmetic ==
    (pc = "done" /\ result.kind = "Ok") =>
        Len(result.lines) = Len(original_lines) + LengthDelta

\* every hunk of the patch deletes exactly the lines it inserts
IdentityPatch ==
    /\ Len(chunks) >= 1
    /\ \A c \in 1..Len(chunks) : chunks[c].del_lines = chunks[c].ins_lines
    /\ \E c \in 1..Len(chunks) : chunks[c].del_lines # <<>>

\* C7 as claimed: in every mode, a patch whose hunks have del_lines equal to
\* ins_lines returns, when it applies, the original line-sequence.
C7_IdentityInEveryMode ==
    (pc = "done" /\ result.kind = "Ok" /\ IdentityPatch) => result.lines = original_lines

\* C7 as amended: the result is the original byte for byte in Strict mode,
\* and line for line up to the comparison of the mode in Lenient and
\* SuperLenient.
C7_IdentityUpToMode ==
    (pc = "done" /\ result.kind = "Ok" /\ IdentityPatch) =>
        /\ Len(result.lines) = Len(original_lines)
        /\ \A q \in 1..Len(original_lines) : match_line(result.lines[q], original_lines[q], mode)
        /\ mode = Strict => result.lines = original_lines

\* C7 witness: a Lenient identity hunk that rewrote " -" as "-"
C7_Witness ==
    /\ pc = "done" /\ result.kind = "Ok" /\ IdentityPatch
    /\ mode = Lenient
    /\ result.lines # original_lines

\* the previous call on this thread
Prev == prev[1]

\* this call applied the hunks of the previous call, in its mode, to the
\* content the previous call returned
AppliedToResult ==
    /\ pc = "done" /\ prev # None
    /\ Prev.result.kind = "Ok"
    /\ original_lines = Prev.result.lines
    /\ chunks = Prev.chunks
    /\ mode = Prev.mode

\* the patch is one hunk that deletes at least one line
OneDeletingHunk == Len(chunks) = 1 /\ chunks[1].del_lines # <<>>

\* the del_lines of the one hunk lie somewhere in the file as a block
DeletionBlockOccurs ==
    \E i \in 0..(Len(original_lines) - Len(chunks[1].del_lines)) :
        BlockAt(original_lines, chunks[1].del_lines, i, mode)

\* C8 as claimed: a hunk that deletes a line and has applied fails with
\* PatchConflict when applied to its own result.
C8_SecondApplyConflicts ==
    (AppliedToResult /\ OneDeletingHunk) => result = PatchConflict

\* C8 as amended: it fails with PatchConflict when its del_lines no longer
\* occur in the result as a block.
C8_SecondApplyConflictsWhenBlockGone ==
    (AppliedToResult /\ OneDeletingHunk /\ ~DeletionBlockOccurs) => result = PatchConflict

\* C8 witness: the second application of a deleting hunk that had context
\* left to match but no deletion block
C8_Witness ==
    /\ AppliedToResult /\ OneDeletingHunk /\ ~DeletionBlockOccurs
    /\ result = PatchConflict
    /\ find_match_positions(original_lines, chunks[1], mode) # <<>>

\* this call had the inputs of the previous call but for the mode
SameInputs ==
    /\ pc = "done" /\ prev # None
    /\ original_lines = Prev.original_lines
    /\ chunks = Prev.chunks

\* C9: when Strict and Lenient both succeed on the same original and hunks
\* they return the same line-sequence.
C9_StrictAndLenientAgree ==
    (SameInputs /\ Prev.mode = Strict /\ mode = Lenient
        /\ Prev.result.kind = "Ok" /\ result.kind = "Ok")
    => result.lines = Prev.result.lines

\* C10: a second call with the same original, hunks and mode returns what
\* the first returned.
C10_Deterministic ==
    (SameInputs /\ mode = Prev.mode) => result = Prev.result

\* C10 witness: the second of two equal calls, each of which needed more
\* than half the node budget
C10_Witness ==
    /\ SameInputs /\ mode = Prev.mode /\ ~Shortcut
    /\ result.kind = "Ok"
    /\ 2 * NODE_COUNT > MAX_BACKTRACK_NODES

\* ascending offset, and ascending hunk index among equal offsets
InReplayOrder(ordered) ==
    \A k \in 1..(Len(ordered) - 1) :
        \/ ordered[k][2] < ordered[k + 1][2]
        \/ ordered[k][2] = ordered[k + 1][2] /\ ordered[k][1] < ordered[k + 1][1]

\* C11: the solver's replay of a complete path and the driver's replay of
\* the solution apply the hunks in ascending offset, and hunks of equal
\* offset in hunk input order, pinned or not.
C11_TiesInHunkInputOrder ==
    /\ (pc = "search" /\ Len(Top.current_path) = Len(chunks))
          => InReplayOrder(sort_by_key_pos(Top.current_path))
    /\ (Searched /\ result.kind = "Ok") => InReplayOrder(sort_by_key_pos(Accepted))

\* C13: when the entries into backtrack_with_mode made by one call exceed
\* the budget, the call returns AmbiguousPatch, never Ok and never
\* PatchConflict.
C13_BudgetExceededIsAmbiguous ==
    (Searched /\ entered > MAX_BACKTRACK_NODES) => result = AmbiguousPatch

\* C13 witness: the budget runs out in a call that had found one solution
C13_Witness ==
    /\ pc = "search" /\ entered > MAX_BACKTRACK_NODES
    /\ Len(stack) >= 2
    /\ Top.at = "ret" /\ Top.state.solution_count = 2
    /\ stack[Len(stack) - 1].state.solution_count = 1

\* ------------------------------------------------------------------------
\* A second thread
\* ------------------------------------------------------------------------

\* most entries the second thread makes in one of its calls
MaxOtherEntries == 2

\* the second thread's entries counted in one cell shared by the process
OtherThreadEnter_shared ==
    /\ other_NODE_COUNT < MaxOtherEntries
    /\ other_NODE_COUNT' = other_NODE_COUNT + 1
    /\ NODE_COUNT' = NODE_COUNT + 1
    /\ UNCHANGED <<original_lines, chunks, mode, pc, stack, solution, result, prev, calls,
                   entered, applying>>

\* lines 15-18 and 354-356 on the second thread: thread_local! gives every
\* thread a cell of its own, and an entry there increments that cell
OtherThreadEnter ==
    /\ other_NODE_COUNT < MaxOtherEntries
    /\ other_NODE_COUNT' = other_NODE_COUNT + 1
    /\ UNCHANGED <<original_lines, chunks, mode, pc, stack, NODE_COUNT, solution, result,
                   prev, calls, entered, applying>>

\* line 85 on the second thread: the start of a call there
OtherThreadCall ==
    /\ other_NODE_COUNT > 0
    /\ other_NODE_COUNT' = 0
    /\ UNCHANGED <<original_lines, chunks, mode, pc, stack, NODE_COUNT, solution, result,
                   prev, calls, entered, applying>>

\* most lines of each chunk when two threads run
MaxThreadLines == 1

\* two short chunks on files over x and y, Strict
InitThreads ==
    /\ original_lines \in PairFiles
    /\ \E a \in ChunkBodies(LineType \X {X, Y}, MaxThreadLines),
          b \in ChunkBodies(LineType \X {X, Y}, MaxThreadLines) :
          chunks = <<Chunk(0, a), Chunk(0, b)>>
    /\ mode = Strict
    /\ pc = "call"
    /\ stack = <<>>
    /\ NODE_COUNT = 0
    /\ solution = None
    /\ result = NoResult
    /\ prev = None
    /\ calls = 1
    /\ entered = 0
    /\ other_NODE_COUNT = 0
    /\ NoApply

NextThreads ==
    \/ Call
    \/ Enter
    \/ Descend
    \/ Return
    \/ Finish
    \/ CallAgain(mode)
    \/ OtherThreadEnter
    \/ OtherThreadCall

SpecThreads == InitThreads /\ [][NextThreads]_vars

\* C14: the count the solver compares against the budget is the number of
\* entries the current call has made itself: entries of earlier calls on the
\* thread and entries made on another thread are not in it.
C14_CountsOwnEntriesOnly ==
    pc = "search" => NODE_COUNT = entered

\* C14 witness: the second call on this thread, after a first call that made
\* entries, in its search while the other thread has made entries too
C14_Witness ==
    /\ pc = "search" /\ calls = 2 /\ entered >= 1
    /\ prev # None /\ Prev.NODE_COUNT >= 1
    /\ other_NODE_COUNT >= 1

\* ------------------------------------------------------------------------
\* The solver without the fixation pass
\* ------------------------------------------------------------------------

\* lines 347-353 entered as line 86 enters them, but with the state of
\* BacktrackingState::new() and an empty path instead of what the fixation
\* pass returned; the outcome is mapped as in lines 88-114
CallSolverAlone ==
    /\ pc = "done"
    /\ calls < MaxCalls
    /\ ~Shortcut
    /\ prev' = Some(Record)
    /\ NODE_COUNT' = 0
    /\ entered' = 0
    /\ stack' = <<Frame(BacktrackingState_new, <<>>)>>
    /\ pc' = "search"
    /\ result' = NoResult
    /\ solution' = None
    /\ calls' = calls + 1
    /\ UNCHANGED <<original_lines, chunks, mode, outer>>

NextFixation ==
    \/ Call
    \/ Enter
    \/ Descend
    \/ Return
    \/ Finish
    \/ CallSolverAlone

SpecFixation == Init /\ [][NextFixation]_vars

\* the solver alone has returned, after the engine on the same inputs
SolverAloneDone == pc = "done" /\ prev # None

RECURSIVE InsFrom(_)
InsFrom(c) == IF c > Len(chunks) THEN <<>> ELSE chunks[c].ins_lines \o InsFrom(c + 1)

\* C16: on an empty original with hunks that delete nothing the engine
\* returns Ok with the ins_lines of all hunks in hunk input order, in every
\* mode, and the solver is not entered.
C16_ShortcutConcatenates ==
    (pc = "done" /\ Shortcut) =>
        /\ result = Ok(InsFrom(1))
        /\ entered = 0
        /\ stack = <<>>

\* C16 witness: the shortcut taken with two hunks that insert different lines
C16_Witness ==
    /\ pc = "done" /\ Shortcut
    /\ Len(chunks) = 2
    /\ chunks[1].ins_lines # <<>> /\ chunks[2].ins_lines # <<>>
    /\ chunks[1].ins_lines # chunks[2].ins_lines
    /\ result.kind = "Ok"

\* the outcome the driver maps a final solution_count to
OutcomeOf(solution_count) ==
    IF solution_count = 0 THEN "PatchConflict"
    ELSE IF solution_count = 1 THEN "Ok"
    ELSE "AmbiguousPatch"

\* C17: every call ends in Ok, PatchConflict or AmbiguousPatch, the one the
\* final solution_count selects, and never in a panic: a state of the solver
\* with solution_count 1 has solution_path and first_solution_result set.
C17_OneOfThreeOutcomes ==
    /\ [](pc = "done" => result.kind \in {"Ok", "PatchConflict", "AmbiguousPatch"})
    /\ [](pc = "search" =>
            \A f \in 1..Len(stack) :
                stack[f].state.solution_count = 1 =>
                    /\ stack[f].state.solution_path # None
                    /\ stack[f].state.first_solution_result # None)
    /\ [][(pc = "search" /\ pc' = "done") =>
             result'.kind = OutcomeOf(Top.state.solution_count)]_vars

\* C17 witness: the driver about to read solution_path, in a root state that
\* got its solution_count of 1 from a recursive call
C17_Witness ==
    /\ pc = "search" /\ Len(stack) = 1 /\ Top.at = "ret"
    /\ Top.state.solution_count = 1
    /\ Len(Top.current_path) < Len(chunks)
    /\ Top.state.solution_path # None

\* ------------------------------------------------------------------------
\* apply: a patch of several actions on a virtual file system
\* ------------------------------------------------------------------------

\* the line feed and the carriage return, as characters of a content
NL == "\n"
CR == "\r"

\* str::strip_suffix('\r')
strip_cr(line) ==
    IF line # <<>> /\ line[Len(line)] = CR THEN SubSeq(line, 1, Len(line) - 1) ELSE line

\* str::lines: the pieces that end at a line feed lose it and one carriage
\* return before it; what follows the last line feed is a line only when it
\* is not empty
RECURSIVE split_lines(_, _, _)
split_lines(content, current, out) ==
    IF content = <<>> THEN (IF current = <<>> THEN out ELSE Append(out, current))
    ELSE IF Head(content) = NL
         THEN split_lines(Tail(content), <<>>, Append(out, strip_cr(current)))
         ELSE split_lines(Tail(content), Append(current, Head(content)), out)

str_lines(content) == split_lines(content, <<>>, <<>>)

\* join without the separator
RECURSIVE join_without_separator(_, _)
join_without_separator(ls, sep) ==
    IF ls = <<>> THEN <<>> ELSE Head(ls) \o join_without_separator(Tail(ls), sep)

\* [String]::join: the separator between consecutive elements only
RECURSIVE join(_, _)
join(ls, sep) ==
    IF ls = <<>> THEN <<>>
    ELSE IF Len(ls) = 1 THEN Head(ls)
    ELSE Head(ls) \o <<sep>> \o join(Tail(ls), sep)

\* HashMap::contains_key, insert and remove on a Vfs
contains_key(v, path) == path \in DOMAIN v

insert(v, path, content) ==
    [p \in DOMAIN v \cup {path} |-> IF p = path THEN content ELSE v[p]]

remove(v, path) == [p \in DOMAIN v \ {path} |-> v[p]]

PatchAction(type_, path, new_path, cs) ==
    [type_ |-> type_, path |-> path, new_path |-> new_path, chunks |-> cs]

\* what apply returns
ApplyOk(v) == [kind |-> "Ok", vfs |-> v, arg |-> ""]
ApplyErr(kind, arg) == [kind |-> kind, vfs |-> <<>>, arg |-> arg]

\* the messages of the engine's two errors and of the Delete branch
ConflictMessage == "No valid patch application sequence found - please fix the patch include more context"
AmbiguousMessage == "Patch application is ambiguous - please include more context before or after insertions or deletions"
DeleteMessage == "Content to delete does not match original content."

\* the engine's error, carried out of apply by `?` or `return Err(e)`
EngineErr(r) ==
    ApplyErr(r.kind, IF r.kind = "PatchConflict" THEN ConflictMessage ELSE AmbiguousMessage)

\* the loop taken from the last action to the first
Action_from_last == actions[Len(actions) - ai]

\* the action the loop is at
Action == actions[ai + 1]

\* the retry that never happens
retries_lenient_never(r) == FALSE

\* lines 47-49: the arms of the match that call the engine again
retries_lenient(r) == r.kind \in {"PatchConflict", "AmbiguousPatch"}

\* lines 59-67 with the old path left in place
write_updated_keeping_path(v, a, applied_lines) ==
    insert(v, IF a.new_path # None THEN a.new_path[1] ELSE a.path, join(applied_lines, NL))

\* lines 59-67: the updated content goes to new_path after the old path is
\* removed, or to the path itself
write_updated(v, a, applied_lines) ==
    LET updated_content == join(applied_lines, NL)
    IN IF a.new_path # None
       THEN insert(remove(v, a.path), a.new_path[1], updated_content)
       ELSE insert(v, a.path, updated_content)

\* lines 75-79: the insertion lines of all chunks, in order
added_content(a) == Concat([c \in 1..Len(a.chunks) |-> a.chunks[c].ins_lines])

\* lines 87-91: the deletion lines of all chunks, in order
content_to_delete(a) == Concat([c \in 1..Len(a.chunks) |-> a.chunks[c].del_lines])

\* the comparison of line 96 on the numbers of lines only
delete_matches_by_length(a, original_content) ==
    Len(content_to_delete(a)) = Len(str_lines(original_content))

\* lines 93-96
delete_matches(a, original_content) == content_to_delete(a) = str_lines(original_content)

\* the message of Parser::parse for a patch without a file directive
NoDirectiveMessage == "No file directive found in patch."

\* lines 26-27: the clone, then the parse, which fails on a patch that holds
\* no file directive
ApplyStart ==
    /\ apc = "called"
    /\ new_vfs' = vfs
    /\ IF actions = <<>>
       THEN /\ apply_result' = ApplyErr("InvalidPatchFormat", NoDirectiveMessage)
            /\ apc' = "returned"
       ELSE /\ apc' = "loop"
            /\ UNCHANGED apply_result
    /\ UNCHANGED <<original_lines, chunks, mode, pc, stack, NODE_COUNT, solution, result, prev,
                   calls, entered, other_NODE_COUNT, vfs, actions, ai, reached_vfs,
                   strict_result, invoked>>

\* lines 69-81
ApplyAdd ==
    /\ apc = "loop"
    /\ ai < Len(actions)
    /\ Action.type_ = "Add"
    /\ reached_vfs' = new_vfs
    /\ invoked' = <<>>
    /\ IF contains_key(new_vfs, Action.path)
       THEN /\ apply_result' = ApplyErr("FileExists", Action.path)
            /\ apc' = "returned"
            /\ UNCHANGED <<new_vfs, ai>>
       ELSE /\ new_vfs' = insert(new_vfs, Action.path, join(added_content(Action), NL))
            /\ ai' = ai + 1
            /\ UNCHANGED <<apc, apply_result>>
    /\ UNCHANGED <<original_lines, chunks, mode, pc, stack, NODE_COUNT, solution, result, prev,
                   calls, entered, other_NODE_COUNT, vfs, actions, strict_result>>

\* lines 82-103
ApplyDelete ==
    /\ apc = "loop"
    /\ ai < Len(actions)
    /\ Action.type_ = "Delete"
    /\ reached_vfs' = new_vfs
    /\ invoked' = <<>>
    /\ IF ~contains_key(new_vfs, Action.path)
       THEN /\ apply_result' = ApplyErr("FileNotFound", Action.path)
            /\ apc' = "returned"
            /\ UNCHANGED <<new_vfs, ai>>
       ELSE IF delete_matches(Action, new_vfs[Action.path])
       THEN /\ new_vfs' = remove(new_vfs, Action.path)
            /\ ai' = ai + 1
            /\ UNCHANGED <<apc, apply_result>>
       ELSE /\ apply_result' = ApplyErr("PatchConflict", DeleteMessage)
            /\ apc' = "returned"
            /\ UNCHANGED <<new_vfs, ai>>
    /\ UNCHANGED <<original_lines, chunks, mode, pc, stack, NODE_COUNT, solution, result, prev,
                   calls, entered, other_NODE_COUNT, vfs, actions, strict_result>>

\* lines 31-44: the file is looked up and split, and the engine is called
\* in Strict mode
ApplyUpdate ==
    /\ apc = "loop"
    /\ ai < Len(actions)
    /\ Action.type_ = "Update"
    /\ reached_vfs' = new_vfs
    /\ IF ~contains_key(new_vfs, Action.path)
       THEN /\ apply_result' = ApplyErr("FileNotFound", Action.path)
            /\ apc' = "returned"
            /\ invoked' = <<>>
            /\ UNCHANGED <<original_lines, chunks, mode, pc, result, solution, calls>>
       ELSE /\ original_lines' = str_lines(new_vfs[Action.path])
            /\ chunks' = Action.chunks
            /\ mode' = Strict
            /\ pc' = "call"
            /\ result' = NoResult
            /\ solution' = None
            /\ calls' = calls + 1
            /\ invoked' = <<Strict>>
            /\ apc' = "strict"
            /\ UNCHANGED apply_result
    /\ strict_result' = NoResult
    /\ UNCHANGED <<stack, NODE_COUNT, prev, entered, other_NODE_COUNT, vfs, new_vfs, actions, ai>>

\* lines 47-67 once the Strict call has returned: the match on its result
ApplyAfterStrict ==
    /\ apc = "strict"
    /\ pc = "done"
    /\ strict_result' = result
    /\ IF retries_lenient(result)
       THEN /\ mode' = Lenient
            /\ pc' = "call"
            /\ result' = NoResult
            /\ solution' = None
            /\ calls' = calls + 1
            /\ invoked' = Append(invoked, Lenient)
            /\ apc' = "lenient"
            /\ UNCHANGED <<new_vfs, ai, apply_result>>
       ELSE IF result.kind = "Ok"
       THEN /\ new_vfs' = write_updated(new_vfs, Action, result.lines)
            /\ ai' = ai + 1
            /\ apc' = "loop"
            /\ pc' = "idle"
            /\ UNCHANGED <<mode, result, solution, calls, invoked, apply_result>>
       ELSE /\ apply_result' = EngineErr(result)
            /\ apc' = "returned"
            /\ pc' = "idle"
            /\ UNCHANGED <<mode, result, solution, calls, invoked, new_vfs, ai>>
    /\ UNCHANGED <<original_lines, chunks, stack, NODE_COUNT, prev, entered, other_NODE_COUNT,
                   vfs, actions, reached_vfs>>

\* lines 50-67 once the Lenient call has returned: `?`, then the write
ApplyAfterLenient ==
    /\ apc = "lenient"
    /\ pc = "done"
    /\ IF result.kind = "Ok"
       THEN /\ new_vfs' = write_updated(new_vfs, Action, result.lines)
            /\ ai' = ai + 1
            /\ apc' = "loop"
            /\ UNCHANGED apply_result
       ELSE /\ apply_result' = EngineErr(result)
            /\ apc' = "returned"
            /\ UNCHANGED <<new_vfs, ai>>
    /\ pc' = "idle"
    /\ UNCHANGED <<original_lines, chunks, mode, stack, NODE_COUNT, solution, result, prev,
                   calls, entered, other_NODE_COUNT, vfs, actions, reached_vfs, strict_result,
                   invoked>>

\* line 107: the loop is over
ApplyReturn ==
    /\ apc = "loop"
    /\ ai = Len(actions)
    /\ apply_result' = ApplyOk(new_vfs)
    /\ apc' = "returned"
    /\ UNCHANGED <<original_lines, chunks, mode, pc, stack, NODE_COUNT, solution, result, prev,
                   calls, entered, other_NODE_COUNT, vfs, new_vfs, actions, ai, reached_vfs,
                   strict_result, invoked>>

\* most actions of a patch
MaxActions == 2

Paths == {"a", "b"}

\* contents: empty, "x", " x", "x\nx" and a lone line feed
ApplyContents == {<<>>, X, SX, X \o <<NL>> \o X, <<NL>>}

\* file systems of at most two files
ApplyFileSystems == UNION {[ps -> ApplyContents] : ps \in SUBSET Paths}

\* Add File always carries one chunk, of insertions; Delete File carries
\* one chunk of deletions or none; Update File replaces x by y or appends y
\* after a context x, with or without Move to
ApplyActions ==
    {PatchAction("Add", p, None, <<Chunk(0, ls)>>) :
        p \in Paths, ls \in {<<>>, <<<<Insertion, X>>, <<Insertion, Y>>>>}}
    \cup {PatchAction("Delete", p, None, cs) :
        p \in Paths, cs \in {<<>>, <<Chunk(0, <<<<Deletion, X>>>>)>>, <<Chunk(0, <<<<Deletion, <<>>>>>>)>>}}
    \cup {PatchAction("Update", p, np, <<Chunk(0, ls)>>) :
        p \in Paths, np \in {None} \cup {Some(q) : q \in Paths},
        ls \in {<<<<Deletion, X>>, <<Insertion, Y>>>>, <<<<Context, X>>, <<Insertion, Y>>>>}}

InitApply ==
    /\ vfs \in ApplyFileSystems
    /\ actions \in SeqsUpTo(ApplyActions, MaxActions)
    /\ new_vfs = <<>>
    /\ ai = 0
    /\ apc = "called"
    /\ reached_vfs = <<>>
    /\ strict_result = NoResult
    /\ invoked = <<>>
    /\ apply_result = [kind |-> "None", vfs |-> <<>>, arg |-> ""]
    /\ original_lines = <<>>
    /\ chunks = <<>>
    /\ mode = Strict
    /\ pc = "idle"
    /\ stack = <<>>
    /\ NODE_COUNT = 0
    /\ solution = None
    /\ result = NoResult
    /\ prev = None
    /\ calls = 0
    /\ entered = 0
    /\ other_NODE_COUNT = 0

NextApply ==
    \/ ApplyStart
    \/ ApplyAdd
    \/ ApplyDelete
    \/ ApplyUpdate
    \/ Call
    \/ Enter
    \/ Descend
    \/ Return
    \/ Finish
    \/ ApplyAfterStrict
    \/ ApplyAfterLenient
    \/ ApplyReturn

SpecApply == InitApply /\ [][NextApply]_vars

\* the Update action actions[ai] has just completed
UpdateDone ==
    /\ ai >= 1
    /\ actions[ai].type_ = "Update"
    /\ invoked # <<>>
    /\ apc = "loop" \/ (apc = "returned" /\ apply_result.kind = "Ok")

\* apply has returned the error of an engine call of the Update action it was at
UpdateFailed == apc = "returned" /\ apply_result.kind # "Ok" /\ invoked # <<>>

\* where an Update action writes
Target(a) == IF a.new_path # None THEN a.new_path[1] ELSE a.path

\* C12: an Update action calls the engine in Strict mode first, and a second
\* time, in Lenient mode, only after Strict returned PatchConflict or
\* AmbiguousPatch; SuperLenient is never used.  The action's outcome is the
\* Strict result when Strict succeeded, and otherwise the lines or the error
\* of the Lenient call.
C12_StrictThenLenient ==
    /\ invoked \in {<<>>, <<Strict>>, <<Strict, Lenient>>}
    /\ mode # SuperLenient
    /\ apc = "strict" => invoked = <<Strict>> /\ mode = Strict
    /\ apc = "lenient" => invoked = <<Strict, Lenient>> /\ mode = Lenient
    /\ apc \in {"strict", "lenient"} =>
          /\ original_lines = str_lines(new_vfs[Action.path])
          /\ chunks = Action.chunks
    /\ invoked = <<Strict, Lenient>> =>
          strict_result.kind \in {"PatchConflict", "AmbiguousPatch"}
    /\ UpdateDone =>
          IF strict_result.kind = "Ok"
          THEN /\ invoked = <<Strict>>
               /\ new_vfs[Target(actions[ai])] = join(strict_result.lines, NL)
          ELSE /\ invoked = <<Strict, Lenient>>
               /\ mode = Lenient
               /\ result.kind = "Ok"
               /\ new_vfs[Target(actions[ai])] = join(result.lines, NL)
    /\ UpdateFailed =>
          /\ invoked = <<Strict, Lenient>>
          /\ mode = Lenient
          /\ result.kind \in {"PatchConflict", "AmbiguousPatch"}
          /\ apply_result = EngineErr(result)

\* Strict found a conflict and the Lenient call placed the hunk
C12_Witness ==
    /\ UpdateDone
    /\ invoked = <<Strict, Lenient>>
    /\ strict_result.kind = "PatchConflict"
    /\ result.kind = "Ok"
    /\ new_vfs[Target(actions[ai])] = Y

\* the action actions[ai] of type t has just completed: new_vfs is what it
\* left and reached_vfs what it found
Completed(t) ==
    /\ ai >= 1
    /\ actions[ai].type_ = t
    /\ apc = "loop" \/ (apc = "returned" /\ apply_result.kind = "Ok")

\* apply has returned an error from the action of type t it was at
Stopped(t) ==
    /\ apc = "returned"
    /\ apply_result.kind # "Ok"
    /\ ai < Len(actions)
    /\ Action.type_ = t

\* the lines of type lt of all chunks of an action, in order
RECURSIVE LinesOfType(_, _, _)
LinesOfType(a, lt, c) ==
    IF c > Len(a.chunks) THEN <<>>
    ELSE FilterType(a.chunks[c].lines, lt) \o LinesOfType(a, lt, c + 1)

\* the lines from the k-th on, each but the first preceded by a line feed
RECURSIVE WithNewlines(_, _)
WithNewlines(ls, k) ==
    IF k > Len(ls) THEN <<>>
    ELSE (IF k > 1 THEN <<NL>> ELSE <<>>) \o ls[k] \o WithNewlines(ls, k + 1)

\* v and w agree on every path outside ps
SameElsewhere(v, w, ps) ==
    /\ DOMAIN v \ ps = DOMAIN w \ ps
    /\ \A p \in DOMAIN v \ ps : v[p] = w[p]

\* C18: an Add action on a path that exists in the file system as the
\* action finds it makes apply return Err(FileExists(path)); otherwise the
\* path holds the action's insertion lines joined with single line feeds and
\* every other path keeps its content, in the file system apply returns.
C18_AddCreatesOrFileExists ==
    /\ Completed("Add") =>
          /\ actions[ai].path \notin DOMAIN reached_vfs
          /\ actions[ai].path \in DOMAIN new_vfs
          /\ new_vfs[actions[ai].path] = WithNewlines(LinesOfType(actions[ai], Insertion, 1), 1)
          /\ SameElsewhere(new_vfs, reached_vfs, {actions[ai].path})
    /\ Stopped("Add") =>
          /\ Action.path \in DOMAIN reached_vfs
          /\ apply_result = ApplyErr("FileExists", Action.path)
    /\ (apc = "returned" /\ apply_result.kind = "Ok") => apply_result.vfs = new_vfs

\* an Add of two lines on a path that the action before it deleted, next to
\* another file
C18_Witness ==
    /\ Completed("Add")
    /\ ai = 2
    /\ actions[2].path \in DOMAIN vfs
    /\ apc = "returned"
    /\ apply_result.vfs[actions[2].path] = X \o <<NL>> \o Y
    /\ DOMAIN apply_result.vfs = Paths

\* C19: a Delete action on a path that exists removes it exactly when the
\* lines of its content equal the action's deletion lines, in order; an
\* action without deletion lines removes only an empty content.  Otherwise
\* apply returns PatchConflict with the content-mismatch message and no
\* path is removed.
C19_DeleteOnlyOnExactContent ==
    /\ Completed("Delete") =>
          /\ actions[ai].path \in DOMAIN reached_vfs
          /\ str_lines(reached_vfs[actions[ai].path]) = LinesOfType(actions[ai], Deletion, 1)
          /\ LinesOfType(actions[ai], Deletion, 1) = <<>> => reached_vfs[actions[ai].path] = <<>>
          /\ actions[ai].path \notin DOMAIN new_vfs
          /\ SameElsewhere(new_vfs, reached_vfs, {actions[ai].path})
    /\ (Stopped("Delete") /\ Action.path \in DOMAIN reached_vfs) =>
          /\ str_lines(reached_vfs[Action.path]) # LinesOfType(Action, Deletion, 1)
          /\ apply_result = ApplyErr("PatchConflict", DeleteMessage)
          /\ new_vfs = reached_vfs

\* a file of the one line x is deleted by a directive that lists x, and
\* the other file stays
C19_Witness ==
    /\ Completed("Delete")
    /\ reached_vfs[actions[ai].path] = X
    /\ DOMAIN reached_vfs = Paths
    /\ DOMAIN new_vfs = Paths \ {actions[ai].path}

\* the paths an Update action names
Named(a) == {a.path} \cup (IF a.new_path # None THEN {a.new_path[1]} ELSE {})

\* C20 as stated: after a successful Update with Move to, the original path
\* is absent and the new path holds the engine's lines joined with line
\* feeds; without Move to the original path holds them; the paths the
\* action does not name keep their content.
C20_MoveLeavesOriginalAbsent ==
    Completed("Update") =>
       LET a == actions[ai]
           updated_content == WithNewlines(result.lines, 1)
       IN /\ result.kind = "Ok"
          /\ IF a.new_path # None
             THEN /\ a.path \notin DOMAIN new_vfs
                  /\ a.new_path[1] \in DOMAIN new_vfs
                  /\ new_vfs[a.new_path[1]] = updated_content
             ELSE /\ a.path \in DOMAIN new_vfs
                  /\ new_vfs[a.path] = updated_content
          /\ SameElsewhere(new_vfs, reached_vfs, Named(a))

\* C20, amended: the original path is absent when the Move to path is a
\* different path; a Move to the action's own path leaves that path in
\* place with the updated content.
C20_MoveToOtherPathLeavesOriginalAbsent ==
    Completed("Update") =>
       LET a == actions[ai]
           updated_content == WithNewlines(result.lines, 1)
       IN /\ result.kind = "Ok"
          /\ (a.new_path # None /\ a.new_path[1] # a.path) => a.path \notin DOMAIN new_vfs
          /\ Target(a) \in DOMAIN new_vfs
          /\ new_vfs[Target(a)] = updated_content
          /\ SameElsewhere(new_vfs, reached_vfs, Named(a))

\* an Update moved onto the other file, which it replaced
C20_Witness ==
    /\ Completed("Update")
    /\ actions[ai].new_path # None
    /\ actions[ai].new_path[1] # actions[ai].path
    /\ DOMAIN reached_vfs = Paths
    /\ DOMAIN new_vfs = {actions[ai].new_path[1]}
    /\ new_vfs[actions[ai].new_path[1]] = X \o <<NL>> \o Y

\* ------------------------------------------------------------------------
\* The locator
\* ------------------------------------------------------------------------

\* the offsets i of 0..(Len(F) - Len(pat)) at which every line of pat matches
\* the line of F that lies on it
OffsetsOf(F, pat, m) ==
    {i \in 0..(Len(F) - Len(pat)) : \A j \in 1..Len(pat) : match_line(F[i + j], pat[j], m)}

StrictlyAscending(ps) == \A k \in 1..(Len(ps) - 1) : ps[k] < ps[k + 1]

\* the fixation pass has just run the locator on every hunk of the call
Located == pc = "search" /\ entered = 0

\* C21: before the trailing anchor and the fallback the locator holds the
\* single offset min(orig_index, len(F)) for a hunk without pre-context and
\* deletions, every offset at which del_lines lies in F for a hunk without
\* pre-context, and every offset at which pre lies in F otherwise, the last
\* two in strictly ascending order.
C21_EnumeratedOffsets ==
    Located => \A c \in 1..Len(chunks) :
       LET F == original_lines
           pre == get_pre_context_lines(chunks[c])
           del == chunks[c].del_lines
           found == enumerated_positions(F, chunks[c], mode)
       IN IF pre = <<>> /\ del = <<>>
          THEN found = <<IF chunks[c].orig_index < Len(F) THEN chunks[c].orig_index ELSE Len(F)>>
          ELSE /\ Range(found) = OffsetsOf(F, IF pre = <<>> THEN del ELSE pre, mode)
               /\ StrictlyAscending(found)

\* a pre-context that lies at the first and at the last offset of the file
C21_Witness ==
    /\ Located
    /\ Len(chunks) = 1
    /\ Len(original_lines) = 3
    /\ get_pre_context_lines(chunks[1]) # <<>>
    /\ enumerated_positions(original_lines, chunks[1], mode) = <<0, 2>>

\* C22: every offset i the locator returns for a hunk that only inserts and
\* has a post-context, whatever its pre-context, has the first non-blank
\* line of the post-context matching a line of F at an index of
\* [i + |pre|, i + 2|pre| + 10).
C22_TrailingAnchorFilters ==
    Located => \A c \in 1..Len(chunks) :
       LET F == original_lines
           pre == get_pre_context_lines(chunks[c])
           post == post_context(chunks[c])
       IN (chunks[c].del_lines = <<>> /\ chunks[c].ins_lines # <<>> /\ post # <<>>) =>
             \A i \in Range(find_match_positions(F, chunks[c], mode)) :
                \E m \in (i + Len(pre))..(i + 2 * Len(pre) + 9) :
                   m < Len(F) /\ match_line(F[m + 1], post[1], mode)

\* the indices of F whose line matches line under Lenient
AnchorIndices(F, line) == {m \in 0..(Len(F) - 1) : match_line(F[m + 1], line, Lenient)}

\* ps holds, for the indices of ms in ascending order, the index less back,
\* saturating at 0
IsFallbackOf(ps, ms, back) ==
    /\ Len(ps) = Cardinality(ms)
    /\ \A k \in 1..Len(ps) :
          \E m \in ms : /\ Cardinality({n \in ms : n < m}) = k - 1
                        /\ ps[k] = (IF m > back THEN m - back ELSE 0)

\* C23: for a hunk with a pre-context and no post-context whose pre-context
\* lies nowhere in F, also when F is shorter than the pre-context, the
\* locator returns in Lenient mode one offset max(0, m - (|pre| - 1)) for
\* every index m of F whose line matches the last line of pre, and nothing
\* in Strict and SuperLenient mode.
C23_LenientFallback ==
    Located => \A c \in 1..Len(chunks) :
       LET F == original_lines
           pre == get_pre_context_lines(chunks[c])
           found == find_match_positions(F, chunks[c], mode)
       IN (pre # <<>> /\ post_context(chunks[c]) = <<>> /\ OffsetsOf(F, pre, mode) = {}) =>
             IF mode = Lenient
             THEN IsFallbackOf(found, AnchorIndices(F, pre[Len(pre)]), Len(pre) - 1)
             ELSE found = <<>>

\* C24: for a hunk with a pre-context and deletions, adj_pre is |pre| - 1
\* when the last line of pre matches the first del_line under the mode and
\* |pre| otherwise; the fixation filter, the solver's test, the footprint
\* and the replay compute this same number, so the lines compared, the
\* indices claimed and the lines removed begin at offset i + adj_pre.
C24_OneAdjPreEverywhere ==
    Located => \A c \in 1..Len(chunks) :
       LET F == original_lines
           chunk == chunks[c]
           pre == get_pre_context_lines(chunk)
           del == chunk.del_lines
       IN (pre # <<>> /\ del # <<>>) =>
          LET adj_pre == IF match_line(pre[Len(pre)], del[1], mode) THEN Len(pre) - 1 ELSE Len(pre)
              lies(i) == \A j \in 1..Len(del) :
                            i + adj_pre + j <= Len(F) /\ match_line(F[i + adj_pre + j], del[j], mode)
          IN /\ adj_pre_fixed(chunk, mode) = adj_pre
             /\ adj_pre_solver(chunk, mode) = adj_pre
             /\ adj_pre_affected(chunk, mode) = adj_pre
             /\ adj_pre_apply(chunk, mode) = adj_pre
             /\ \A i \in Range(find_match_positions(F, chunk, mode)) :
                   /\ content_match_fixed(F, chunk, i, mode) = lies(i)
                   /\ content_match_solver(F, chunk, i, mode) = lies(i)
                   /\ get_affected_indices(chunk, i, mode) = [k \in 1..Len(del) |-> i + adj_pre + (k - 1)]
                   /\ lies(i) => apply_chunk(F, chunk, i, mode) =
                         SubSeq(F, 1, i + adj_pre) \o chunk.ins_lines
                            \o SubSeq(F, i + adj_pre + Len(del) + 1, Len(F))

\* ------------------------------------------------------------------------
\* The solver's order of trial
\* ------------------------------------------------------------------------

Unapplied(state) == (0..(Len(chunks) - 1)) \ state.applied_chunks

\* hunk j is not applied and no hunk that is not applied has a smaller orig_index
Eligible(state, j) ==
    /\ j \in Unapplied(state)
    /\ \A u \in Unapplied(state) : chunks[j + 1].orig_index <= chunks[u + 1].orig_index

\* the k-th candidate of hunk j passes the content test and the overlap test
PassesTests(state, j, k) ==
    LET pos == find_match_positions(original_lines, chunks[j + 1], mode)[k]
    IN /\ content_match_solver(original_lines, chunks[j + 1], pos, mode)
       /\ Range(get_affected_indices(chunks[j + 1], pos, mode)) \cap state.modified_indices = {}

\* the candidates the loops pass from the cursors (i, k) up to, and without,
\* candidate k2 of hunk j2: hunks in input order, offsets in list order
Passed(i, k, j2, k2) ==
    {jk \in (0..(Len(chunks) - 1)) \X (1..(Len(original_lines) + 1)) :
        /\ jk[2] <= Len(find_match_positions(original_lines, chunks[jk[1] + 1], mode))
        /\ jk[1] > i \/ (jk[1] = i /\ jk[2] >= k)
        /\ jk[1] < j2 \/ (jk[1] = j2 /\ jk[2] < k2)}

NeverDescending(ps) == \A k \in 1..(Len(ps) - 1) : ps[k] <= ps[k + 1]

\* the solver descends: the node on top stays and a new one is pushed
Descends == pc = "search" /\ pc' = "search" /\ Len(stack') = Len(stack) + 1

\* the loops of the node on top run out
RunsOut == pc = "search" /\ Top.at = "loop" /\ pc' = "search" /\ Len(stack') = Len(stack)

\* C25: a solver node tries the hunks that are not applied and have the
\* least orig_index among those, in input order, and the candidate offsets
\* of each in ascending order: what it descends into is the first such
\* candidate, from where its loops stand, that passes the tests, and it
\* gives up only when there is none.  A hunk is never placed while a hunk
\* with a smaller orig_index is not applied.
C25_MinOrigIndexFirst ==
    /\ [][Descends =>
            LET node == Top
                placed == stack'[Len(stack')].current_path
                j == placed[Len(placed)][1]
                k == stack'[Len(stack)].k - 1
                positions == find_match_positions(original_lines, chunks[j + 1], mode)
            IN /\ SubSeq(placed, 1, Len(placed) - 1) = node.current_path
               /\ Eligible(node.state, j)
               /\ NeverDescending(positions)
               /\ k \in 1..Len(positions)
               /\ placed[Len(placed)][2] = positions[k]
               /\ j > node.i \/ (j = node.i /\ k >= node.k)
               /\ PassesTests(node.state, j, k)
               /\ \A jk \in Passed(node.i, node.k, j, k) :
                     Eligible(node.state, jk[1]) => ~PassesTests(node.state, jk[1], jk[2])]_vars
    /\ [][RunsOut =>
            \A jk \in Passed(Top.i, Top.k, Len(chunks), 1) :
               Eligible(Top.state, jk[1]) => ~PassesTests(Top.state, jk[1], jk[2])]_vars

\* nothing is pinned, and the solver places the second hunk first because
\* its orig_index is the smaller one
C25_Witness ==
    /\ pc = "search"
    /\ Len(stack) = 2
    /\ Len(chunks) = 2
    /\ chunks[1].orig_index > chunks[2].orig_index
    /\ stack[1].current_path = <<>>
    /\ Len(Top.current_path) = 1
    /\ Top.current_path[1][1] = 1

\* the candidate (j, pos) is feasible against the claimed indices: every
\* del_line matches the line of the file at pos + adj_pre + its index, which
\* exists, and none of these indices is claimed
FeasibleAgainst(claimed, j, pos) ==
    LET chunk == chunks[j + 1]
        adj_pre == AdjPre(chunk, mode)
    IN \A d \in 1..Len(chunk.del_lines) :
          LET idx == pos + adj_pre + (d - 1)
          IN /\ idx < Len(original_lines)
             /\ match_line(original_lines[idx + 1], chunk.del_lines[d], mode)
             /\ idx \notin claimed

\* C26: every node the solver has descended into was reached through a
\* feasible candidate: the deletion block of the hunk lies in the file at
\* offset + adj_pre under the mode, on indices the node above had not
\* claimed.
C26_DescendsOnlyIntoFeasible ==
    pc = "search" => \A n \in 2..Len(stack) :
       LET path == stack[n].current_path
           placement == path[Len(path)]
       IN /\ Len(path) = Len(stack[n - 1].current_path) + 1
          /\ FeasibleAgainst(stack[n - 1].state.modified_indices, placement[1], placement[2])

\* a hunk whose pre-context lies at three offsets and whose deletion block
\* lies at the first two only: the solver is at the second
C26_Witness ==
    /\ pc = "search"
    /\ Len(stack) = 2
    /\ Len(chunks) = 1
    /\ get_pre_context_lines(chunks[1]) # <<>>
    /\ Len(find_match_positions(original_lines, chunks[1], mode)) = 3
    /\ ~FeasibleAgainst({}, 0, find_match_positions(original_lines, chunks[1], mode)[3])
    /\ Top.current_path = <<<<0, find_match_positions(original_lines, chunks[1], mode)[2]>>>>

\* ------------------------------------------------------------------------
\* The comparator
\* ------------------------------------------------------------------------

\* s read from left to right: whitespace is dropped, and one space stands
\* for every run of it that lies between two other characters
RECURSIVE Folded(_, _, _)
Folded(s, out, gap) ==
    IF s = <<>> THEN out
    ELSE IF Head(s) \in WhiteSpaceChars THEN Folded(Tail(s), out, out # <<>>)
    ELSE Folded(Tail(s), (IF gap THEN Append(out, " ") ELSE out) \o <<Head(s)>>, FALSE)

\* longest line the comparator is tried on
MaxLineLen == 3

\* lines of hyphens, en dashes, spaces and no-break spaces
FoldLines == SeqsUpTo({"-", "EN_DASH", " ", "NBSP"}, MaxLineLen)

\* most copies of the line in the file
MaxCopies == 2

\* a file of one line, once or twice, and a hunk that deletes one line, in
\* every mode
InitComparator ==
    /\ \E a \in FoldLines, b \in FoldLines, n \in 1..MaxCopies :
          /\ original_lines = [i \in 1..n |-> a]
          /\ chunks = <<Chunk(0, <<<<Deletion, b>>>>)>>
    /\ mode \in WhitespaceMode
    /\ pc = "call"
    /\ stack = <<>>
    /\ NODE_COUNT = 0
    /\ solution = None
    /\ result = NoResult
    /\ prev = None
    /\ calls = 1
    /\ entered = 0
    /\ other_NODE_COUNT = 0
    /\ NoApply

NextComparator ==
    \/ Call
    \/ Enter
    \/ Descend
    \/ Return
    \/ Finish

SpecComparator == InitComparator /\ [][NextComparator]_vars

\* C27: a match under Strict is a match under Lenient, and a match under
\* Lenient is a match under SuperLenient; Strict matches exactly the equal
\* lines, and Lenient exactly the lines that are equal after whitespace
\* folding.  The engine deletes one copy of the line exactly when it
\* matches under the mode of the call.
C27_ModesProgressivelyLooser ==
    LET a == original_lines[1]
        b == chunks[1].del_lines[1]
    IN /\ match_line(a, b, Strict) => match_line(a, b, Lenient)
       /\ match_line(a, b, Lenient) => match_line(a, b, SuperLenient)
       /\ match_line(a, b, Strict) <=> a = b
       /\ match_line(a, b, Lenient) <=> Folded(a, <<>>, FALSE) = Folded(b, <<>>, FALSE)
       /\ pc = "done" => (result = Ok(Tail(original_lines)) <=> match_line(a, b, mode))
       /\ pc = "done" => (result = PatchConflict <=> ~match_line(a, b, mode))

\* SuperLenient deletes the line " -" for a hunk that spells it with an en
\* dash, which neither Strict nor Lenient matches
C27_Witness ==
    /\ pc = "done"
    /\ mode = SuperLenient
    /\ original_lines = <<SH>>
    /\ chunks[1].del_lines = <<D>>
    /\ ~match_line(SH, D, Strict)
    /\ ~match_line(SH, D, Lenient)
    /\ result = Ok(<<>>)

\* ------------------------------------------------------------------------
\* The bookkeeping of the search state
\* ------------------------------------------------------------------------

\* the state and the path of an activation agree
Consistent(frame) ==
    LET path == frame.current_path
    IN /\ \A k, l \in 1..Len(path) : k # l => path[k][1] # path[l][1]
       /\ frame.state.applied_chunks = {path[k][1] : k \in 1..Len(path)}
       /\ frame.state.modified_indices = UNION {FootprintOf(path[k]) : k \in 1..Len(path)}

\* a recursive call returns to the activation below it
Returns == pc = "search" /\ pc' = "search" /\ Len(stack') = Len(stack) - 1

MaxRun == 4

\* files of copies of x, and one or two hunks that delete an x, insert y
\* after an x, or insert y at the head: the deletions of two hunks on four
\* lines take the solver past its budget, the insertion after x has as many
\* distinct results as the file has lines
TerminationBodies ==
    {<<<<Deletion, X>>>>, <<<<Context, X>>, <<Insertion, Y>>>>, <<<<Insertion, Y>>>>}

InitTermination ==
    /\ \E n \in 0..MaxRun : original_lines = [i \in 1..n |-> X]
    /\ chunks \in {<<Chunk(0, a)>> : a \in TerminationBodies}
                  \cup {<<Chunk(0, a), Chunk(0, b)>> : a \in TerminationBodies, b \in TerminationBodies}
    /\ mode = Strict
    /\ pc = "call"
    /\ stack = <<>>
    /\ NODE_COUNT = 0
    /\ solution = None
    /\ result = NoResult
    /\ prev = None
    /\ calls = 1
    /\ entered = 0
    /\ other_NODE_COUNT = 0
    /\ NoApply

\* a step of the engine
EngineStep ==
    \/ Call
    \/ Enter
    \/ Descend
    \/ Return
    \/ Finish

NextTermination ==
    \/ Call
    \/ Enter
    \/ Descend
    \/ Return
    \/ Finish
    \/ CallAgain(mode)

\* the thread that called the engine keeps running it: the engine takes no
\* lock and waits for nothing
SpecTermination == InitTermination /\ [][NextTermination]_vars /\ WF_vars(EngineStep)

\* C29: every call of the engine returns; the solver is entered at most
\* MAX_BACKTRACK_NODES + 1 times in a call, and once an activation holds
\* solution_count 2, by a second distinct solution or by the exhausted
\* budget, no recursive call is made any more.
C29_EveryCallReturns ==
    /\ (pc = "call") ~> (pc = "done")
    /\ [](entered <= MAX_BACKTRACK_NODES + 1)
    /\ [][Descends => \A n \in 1..Len(stack) : stack[n].state.solution_count < 2]_vars

\* a call that ran out of budget has returned
C29_Witness ==
    /\ pc = "done"
    /\ entered = MAX_BACKTRACK_NODES + 1
    /\ NODE_COUNT = MAX_BACKTRACK_NODES + 1
    /\ result = AmbiguousPatch

\* ------------------------------------------------------------------------
\* apply as a whole
\* ------------------------------------------------------------------------

\* what the actions from the k-th on make of the file system v when they are
\* Add and Delete actions taken one after the other, each on what the one
\* before it left
RECURSIVE Sequentially(_, _)
Sequentially(v, k) ==
    IF k > Len(actions) THEN ApplyOk(v)
    ELSE LET a == actions[k]
         IN IF a.type_ = "Add"
            THEN IF a.path \in DOMAIN v
                 THEN ApplyErr("FileExists", a.path)
                 ELSE Sequentially(insert(v, a.path, WithNewlines(LinesOfType(a, Insertion, 1), 1)),
                                   k + 1)
            ELSE IF a.path \notin DOMAIN v
                 THEN ApplyErr("FileNotFound", a.path)
                 ELSE IF str_lines(v[a.path]) = LinesOfType(a, Deletion, 1)
                 THEN Sequentially(remove(v, a.path), k + 1)
                 ELSE ApplyErr("PatchConflict", DeleteMessage)

====
